---------------------------- MODULE Spec2Model ----------------------------
(***************************************************************************)
(* A model of turbulence's pooled packet buffers (src/packet.rs):          *)
(* BufferPool (the external buffer source), PacketPool (the factory) and   *)
(* Packet (a fixed-capacity buffer plus a logical length).                 *)
(*                                                                         *)
(* A Rust slice is indexed from 0 and a TLA+ sequence from 1: byte i of a  *)
(* buffer is buffer[i + 1] here.  Every definition that speaks of an index *)
(* speaks of the Rust index.                                               *)
(***************************************************************************)
EXTENDS Integers, Sequences, FiniteSets

VARIABLES
    sourceCap,  \* the length of every buffer the held BufferPool hands out
    taken,      \* how many buffers have been taken from the BufferPool
    packets,    \* the packets acquired so far, in order of acquisition
    panicked,   \* an assert! of the last call failed: the call path is dead
    last,       \* the last call: its name, arguments and the packet before it
    dropped     \* how many bytes the call before the last cut off that packet

vars == <<sourceCap, taken, packets, panicked, last, dropped>>

\* ------------------------------------------------------------------ bounds

\* The largest buffer length a BufferPool of the model hands out.
MaxCap == 3

\* Two u8 values stand for all 256: the code copies and fills bytes and never
\* inspects one, so any byte that ends up in the wrong place shows up for some
\* choice of stale, fill and appended bytes among two values.
Byte == {0, 255}

RECURSIVE SeqsUpTo(_)
\* Every byte sequence of length at most n.
SeqsUpTo(n) ==
    IF n = 0 THEN {<<>>}
    ELSE LET shorter == SeqsUpTo(n - 1)
         IN  shorter \cup {Append(s, x) : s \in {t \in shorter : Len(t) = n - 1}, x \in Byte}

\* Every byte sequence of length exactly n.
SeqsOf(n) == {s \in SeqsUpTo(n) : Len(s) = n}

Min(a, b) == IF a <= b THEN a ELSE b

\* ------------------------------------------------------------ the program

\* BufferPool::acquire: any buffer of the source's length, holding whatever
\* bytes earlier use left in it.
BufferPool_acquire(cap) == SeqsOf(cap)

\* The result of a call: the packet it leaves, and whether an assert! failed.
Ok(p) == [pkt |-> p, panic |-> FALSE]
Panic(p) == [pkt |-> p, panic |-> TRUE]

\* A slip: the packet starts as long as its buffer instead of empty.
PacketPool_acquire_full(buf) == [buffer |-> buf, len |-> Len(buf)]

\* PacketPool::acquire, given the buffer self.0.acquire() returned.
PacketPool_acquire(buf) == [buffer |-> buf, len |-> 0]

\* Packet::capacity
capacity(p) == Len(p.buffer)

\* A slip: clear also zeroes the buffer.
clear_zeroing(p) == Ok([buffer |-> [i \in 1..Len(p.buffer) |-> 0], len |-> 0])

\* Packet::clear
clear(p) == Ok([p EXCEPT !.len = 0])

\* A slip: no assert!, and the stores that land inside the buffer are made.
resize_unchecked(p, len, val) ==
    Ok([buffer |-> [i \in 1..Len(p.buffer) |->
                       IF p.len <= i - 1 /\ i - 1 < len THEN val ELSE p.buffer[i]],
        len |-> len])

\* A slip: the loop runs over 0..len instead of self.len..len.
resize_fill_all(p, len, val) ==
    IF ~(len <= Len(p.buffer)) THEN Panic(p)
    ELSE Ok([buffer |-> [i \in 1..Len(p.buffer) |->
                            IF i - 1 < len THEN val ELSE p.buffer[i]],
             len |-> len])

\* A slip: a shrinking resize wipes the bytes it drops with val.
resize_wipe(p, len, val) ==
    IF ~(len <= Len(p.buffer)) THEN Panic(p)
    ELSE Ok([buffer |-> [i \in 1..Len(p.buffer) |->
                            IF \/ p.len <= i - 1 /\ i - 1 < len
                               \/ len <= i - 1 /\ i - 1 < p.len
                            THEN val ELSE p.buffer[i]],
             len |-> len])

\* A slip: no assert!, so the loop stores val up to the end of the buffer
\* and the bounds check of self.buffer[i] is what fails.
resize_late_check(p, len, val) ==
    IF ~(len <= Len(p.buffer))
    THEN Panic([buffer |-> [i \in 1..Len(p.buffer) |->
                               IF p.len <= i - 1 THEN val ELSE p.buffer[i]],
                len |-> p.len])
    ELSE Ok([buffer |-> [i \in 1..Len(p.buffer) |->
                            IF p.len <= i - 1 /\ i - 1 < len THEN val ELSE p.buffer[i]],
             len |-> len])

\* A slip: a growing resize stores val up to the end of the buffer.
resize_fill_rest(p, len, val) ==
    IF ~(len <= Len(p.buffer)) THEN Panic(p)
    ELSE Ok([buffer |-> [i \in 1..Len(p.buffer) |->
                            IF p.len <= i - 1 /\ p.len < len THEN val ELSE p.buffer[i]],
             len |-> len])

\* Packet::resize: the assert!, then the loop over self.len..len, then len.
resize(p, len, val) ==
    IF ~(len <= capacity(p)) THEN Panic(p)
    ELSE Ok([buffer |-> [i \in 1..Len(p.buffer) |->
                            IF p.len <= i - 1 /\ i - 1 < len THEN val ELSE p.buffer[i]],
             len |-> len])

\* A slip: the buffer itself is cut, as Vec::truncate would cut a vector.
truncate_buffer(p, len) ==
    Ok([buffer |-> SubSeq(p.buffer, 1, Min(Len(p.buffer), len)), len |-> Min(p.len, len)])

\* A slip: len is set, not lowered.
truncate_set(p, len) == Ok([p EXCEPT !.len = len])

\* A slip: len bytes are cut off the end instead of all but len being cut.
truncate_by(p, len) == Ok([p EXCEPT !.len = p.len - Min(p.len, len)])

\* Packet::truncate
truncate(p, len) == Ok([p EXCEPT !.len = Min(p.len, len)])

\* A slip: no assert!; what fits is copied and len stops at the capacity.
extend_clamped(p, other) ==
    Ok([buffer |-> [i \in 1..Len(p.buffer) |->
                       IF p.len <= i - 1 /\ i - 1 < p.len + Len(other)
                       THEN other[i - p.len] ELSE p.buffer[i]],
        len |-> Min(p.len + Len(other), Len(p.buffer))])

\* A slip: the bytes are copied to the start of the buffer, not to buffer[len..].
extend_overwrite(p, other) ==
    IF ~(p.len + Len(other) <= Len(p.buffer)) THEN Panic(p)
    ELSE Ok([buffer |-> [i \in 1..Len(p.buffer) |->
                            IF i - 1 < Len(other) THEN other[i] ELSE p.buffer[i]],
             len |-> p.len + Len(other)])

\* A slip: len is advanced but copy_from_slice is left out.
extend_skip(p, other) ==
    IF ~(p.len + Len(other) <= Len(p.buffer)) THEN Panic(p)
    ELSE Ok([p EXCEPT !.len = p.len + Len(other)])

\* A slip: the assert! compares with < where the code compares with <=.
extend_strict(p, other) ==
    IF ~(p.len + Len(other) < Len(p.buffer)) THEN Panic(p)
    ELSE Ok([buffer |-> [i \in 1..Len(p.buffer) |->
                            IF p.len <= i - 1 /\ i - 1 < p.len + Len(other)
                            THEN other[i - p.len] ELSE p.buffer[i]],
             len |-> p.len + Len(other)])

\* A slip: len = other.len() where the code has len += other.len().
extend_len_set(p, other) ==
    IF ~(p.len + Len(other) <= Len(p.buffer)) THEN Panic(p)
    ELSE Ok([buffer |-> [i \in 1..Len(p.buffer) |->
                            IF p.len <= i - 1 /\ i - 1 < p.len + Len(other)
                            THEN other[i - p.len] ELSE p.buffer[i]],
             len |-> Len(other)])

\* Packet::extend: the assert!, then copy_from_slice, then len += other.len().
\* self.len <= capacity and a slice is at most isize::MAX long, so the usize
\* sum self.len + other.len() cannot wrap.
extend(p, other) ==
    IF ~(p.len + Len(other) <= capacity(p)) THEN Panic(p)
    ELSE Ok([buffer |-> [i \in 1..Len(p.buffer) |->
                            IF p.len <= i - 1 /\ i - 1 < p.len + Len(other)
                            THEN other[i - p.len] ELSE p.buffer[i]],
             len |-> p.len + Len(other)])

\* Packet::as_slice: &self.buffer
as_slice(p) == p.buffer

\* Packet::as_mut_slice: &mut self.buffer
as_mut_slice(p) == p.buffer

\* Deref::deref: &self.buffer[0..self.len]
deref(p) == SubSeq(p.buffer, 1, p.len)

\* DerefMut::deref_mut: &mut self.buffer[0..self.len]
deref_mut(p) == SubSeq(p.buffer, 1, p.len)

\* A store of val at index i of a mutable view of p that starts at buffer[0].
view_write(p, i, val) == Ok([p EXCEPT !.buffer[i + 1] = val])

\* ------------------------------------------------------------- the state

NoPacket == [buffer |-> <<>>, len |-> 0]

Call(op, id, n, v, b, pre, tk) ==
    [op |-> op, id |-> id, n |-> n, v |-> v, b |-> b, pre |-> pre, taken |-> tk]

NoCall == Call("new", 0, 0, 0, <<>>, NoPacket, 0)

\* PacketPool::new over a source of any buffer length: nothing acquired yet.
Init ==
    /\ sourceCap \in 0..MaxCap
    /\ taken = 0
    /\ packets = <<>>
    /\ panicked = FALSE
    /\ last = NoCall
    /\ dropped = 0

Ids == 1..Len(packets)

\* The lengths a caller may ask for: up to one more than the capacity.
Lens == 0..(sourceCap + 1)

\* Every slice a caller of the model may append to a packet of any capacity.
AllSlices == SeqsUpTo(MaxCap + 1)

\* The slices a caller may append: up to one byte longer than the capacity.
Slices == {b \in AllSlices : Len(b) <= sourceCap + 1}

\* How many bytes the last call (clear, truncate or a shrinking resize) cut
\* off packet k: 0 when it was made on another packet or cut none.
Dropped(k) ==
    IF last.id = k /\ packets[k].len < last.pre.len
    THEN last.pre.len - packets[k].len
    ELSE 0

\* A slip: the packets share one buffer and one length, so a call on one is
\* a call on all.
Apply_shared(k, r, call) ==
    /\ packets' = [j \in 1..Len(packets) |-> r.pkt]
    /\ panicked' = r.panic
    /\ last' = call
    /\ dropped' = Dropped(k)
    /\ UNCHANGED <<sourceCap, taken>>

\* A call on packet k that ended as r.
Apply(k, r, call) ==
    /\ packets' = [packets EXCEPT ![k] = r.pkt]
    /\ panicked' = r.panic
    /\ last' = call
    /\ dropped' = Dropped(k)
    /\ UNCHANGED <<sourceCap, taken>>

\* PacketPool::acquire.  Spec follows one packet from its acquisition on: a
\* packet owns its buffer, so no call on another packet can reach it.
Acquire ==
    /\ ~panicked
    /\ packets = <<>>
    /\ \E buf \in BufferPool_acquire(sourceCap) :
          /\ packets' = Append(packets, PacketPool_acquire(buf))
          /\ taken' = taken + 1
          /\ last' = Call("acquire", Len(packets) + 1, 0, 0, <<>>, NoPacket, taken)
    /\ dropped' = 0
    /\ UNCHANGED <<sourceCap, panicked>>

Clear ==
    /\ ~panicked
    /\ \E k \in Ids :
          Apply(k, clear(packets[k]), Call("clear", k, 0, 0, <<>>, packets[k], taken))

Resize ==
    /\ ~panicked
    /\ \E k \in Ids, n \in Lens, v \in Byte :
          Apply(k, resize(packets[k], n, v), Call("resize", k, n, v, <<>>, packets[k], taken))

Truncate ==
    /\ ~panicked
    /\ \E k \in Ids, n \in Lens :
          Apply(k, truncate(packets[k], n), Call("truncate", k, n, 0, <<>>, packets[k], taken))

Extend ==
    /\ ~panicked
    /\ \E k \in Ids, b \in Slices :
          Apply(k, extend(packets[k], b), Call("extend", k, 0, 0, b, packets[k], taken))

\* A store through the view as_mut_slice returns, at an index of that view.
WriteAsMutSlice ==
    /\ ~panicked
    /\ \E k \in Ids, v \in Byte :
          \E i \in 0..(Len(as_mut_slice(packets[k])) - 1) :
             Apply(k, view_write(packets[k], i, v),
                   Call("as_mut_slice", k, i, v, <<>>, packets[k], taken))

\* A store through the view deref_mut returns, at an index of that view.
WriteDerefMut ==
    /\ ~panicked
    /\ \E k \in Ids, v \in Byte :
          \E i \in 0..(Len(deref_mut(packets[k])) - 1) :
             Apply(k, view_write(packets[k], i, v),
                   Call("deref_mut", k, i, v, <<>>, packets[k], taken))

Next ==
    \/ Acquire
    \/ Clear
    \/ Resize
    \/ Truncate
    \/ Extend
    \/ WriteAsMutSlice
    \/ WriteDerefMut

Spec == Init /\ [][Next]_vars

\* ------------------------------------------------- two packets in lockstep

\* Two packets of one pool, whose buffers may hold different stale bytes.
PairAcquire ==
    /\ ~panicked
    /\ packets = <<>>
    /\ \E b1 \in BufferPool_acquire(sourceCap), b2 \in BufferPool_acquire(sourceCap) :
          /\ packets' = <<PacketPool_acquire(b1), PacketPool_acquire(b2)>>
          /\ taken' = taken + 2
          /\ last' = Call("acquire", 1, 0, 0, <<>>, NoPacket, taken)
    /\ dropped' = 0
    /\ UNCHANGED <<sourceCap, panicked>>

\* The same call made on both packets: it ended as r1 on the first and as r2
\* on the second.
ApplyBoth(r1, r2, call) ==
    /\ packets' = <<r1.pkt, r2.pkt>>
    /\ panicked' = (r1.panic \/ r2.panic)
    /\ last' = call
    /\ dropped' = Dropped(1)
    /\ UNCHANGED <<sourceCap, taken>>

PairClear ==
    /\ ~panicked
    /\ Len(packets) = 2
    /\ ApplyBoth(clear(packets[1]), clear(packets[2]),
                 Call("clear", 1, 0, 0, <<>>, packets[1], taken))

PairResize ==
    /\ ~panicked
    /\ Len(packets) = 2
    /\ \E n \in Lens, v \in Byte :
          ApplyBoth(resize(packets[1], n, v), resize(packets[2], n, v),
                    Call("resize", 1, n, v, <<>>, packets[1], taken))

PairTruncate ==
    /\ ~panicked
    /\ Len(packets) = 2
    /\ \E n \in Lens :
          ApplyBoth(truncate(packets[1], n), truncate(packets[2], n),
                    Call("truncate", 1, n, 0, <<>>, packets[1], taken))

PairExtend ==
    /\ ~panicked
    /\ Len(packets) = 2
    /\ \E b \in Slices :
          ApplyBoth(extend(packets[1], b), extend(packets[2], b),
                    Call("extend", 1, 0, 0, b, packets[1], taken))

NextPair ==
    \/ PairAcquire
    \/ PairClear
    \/ PairResize
    \/ PairTruncate
    \/ PairExtend

SpecPair == Init /\ [][NextPair]_vars

\* ------------------------------------------------- two packets of one pool

\* PacketPool::new over a source of short buffers: two packets are followed,
\* each through every call, and the states of two packets multiply.
InitPool ==
    /\ Init
    /\ sourceCap + 2 <= MaxCap

\* PacketPool::acquire, while fewer than two packets are held.
AcquireMore ==
    /\ ~panicked
    /\ Len(packets) <= 1
    /\ \E buf \in BufferPool_acquire(sourceCap) :
          /\ packets' = Append(packets, PacketPool_acquire(buf))
          /\ taken' = taken + 1
          /\ last' = Call("acquire", Len(packets) + 1, 0, 0, <<>>, NoPacket, taken)
    /\ dropped' = 0
    /\ UNCHANGED <<sourceCap, panicked>>

NextPool ==
    \/ AcquireMore
    \/ Clear
    \/ Resize
    \/ Truncate
    \/ Extend
    \/ WriteAsMutSlice
    \/ WriteDerefMut

SpecPool == InitPool /\ [][NextPool]_vars

\* ---------------------------------------------------------------- claims

\* The packet the last call was made on, as the call left it.
Cur == packets[last.id]

\* The packet the last call was made on, as the call found it.
Pre == last.pre

\* The Rust indices of a packet's buffer.
Indices(p) == 0..(Len(p.buffer) - 1)

\* Byte i of a packet's buffer.
ByteAt(p, i) == p.buffer[i + 1]

\* C1: in every reachable state the logical length of every packet is at
\* least 0 and at most the packet's capacity.
C1_LenWithinCapacity ==
    \A k \in Ids : 0 <= packets[k].len /\ packets[k].len <= capacity(packets[k])

\* C1's case: a store through a mutable view of a packet that resize or
\* extend had filled to its capacity.
C1_Witness ==
    /\ last.op \in {"as_mut_slice", "deref_mut"}
    /\ Cur.len = capacity(Cur)
    /\ capacity(Cur) > 1

\* C2: every view (as_slice, as_mut_slice, Deref, DerefMut) of every packet
\* is exactly buffer[0..len]: len bytes long, and never the whole buffer when
\* len < capacity.
C2_ViewsAreLogicalContent ==
    \A k \in Ids :
       LET p == packets[k]
           content == SubSeq(p.buffer, 1, p.len)
       IN  /\ as_slice(p) = content
           /\ as_mut_slice(p) = content
           /\ deref(p) = content
           /\ deref_mut(p) = content

\* C3: two packets of equal capacity that were given the same calls show the
\* same bytes through every view, whatever stale bytes their buffers hold.
C3_ViewsHideStaleBytes ==
    Len(packets) = 2 =>
       /\ as_slice(packets[1]) = as_slice(packets[2])
       /\ as_mut_slice(packets[1]) = as_mut_slice(packets[2])
       /\ deref(packets[1]) = deref(packets[2])
       /\ deref_mut(packets[1]) = deref_mut(packets[2])

\* C4: resize(n, v) with n <= capacity ends with len = n, every byte of
\* [old_len, n) equal to v and every byte below min(old_len, n) unchanged.
C4_ResizePost ==
    (last.op = "resize" /\ last.n <= capacity(Pre)) =>
       /\ ~panicked
       /\ Cur.len = last.n
       /\ \A i \in Indices(Pre) :
             /\ (Pre.len <= i /\ i < last.n) => ByteAt(Cur, i) = last.v
             /\ i < Min(Pre.len, last.n) => ByteAt(Cur, i) = ByteAt(Pre, i)

\* C4's case: a growing resize of a packet that held bytes other than v.
C4_Witness ==
    /\ last.op = "resize"
    /\ ~panicked
    /\ 0 < Pre.len
    /\ Pre.len < last.n
    /\ \E i \in Indices(Pre) : i < Pre.len /\ ByteAt(Pre, i) # last.v
    /\ \E i \in Indices(Pre) : Pre.len <= i /\ i < last.n /\ ByteAt(Pre, i) # last.v

\* C5: extend(b) with old_len + |b| <= capacity ends with len = old_len + |b|,
\* the first old_len bytes unchanged and the bytes from old_len on equal to b.
C5_ExtendPost ==
    (last.op = "extend" /\ Pre.len + Len(last.b) <= capacity(Pre)) =>
       /\ ~panicked
       /\ Cur.len = Pre.len + Len(last.b)
       /\ \A i \in Indices(Pre) :
             /\ i < Pre.len => ByteAt(Cur, i) = ByteAt(Pre, i)
             /\ (Pre.len <= i /\ i < Pre.len + Len(last.b)) =>
                   ByteAt(Cur, i) = last.b[i - Pre.len + 1]

\* C5's case: bytes appended to a packet that is not empty, over stale bytes
\* that differ from them.
C5_Witness ==
    /\ last.op = "extend"
    /\ ~panicked
    /\ 0 < Pre.len
    /\ Len(last.b) > 1
    /\ \E i \in Indices(Pre) :
          Pre.len <= i /\ i < Pre.len + Len(last.b) /\ ByteAt(Pre, i) # ByteAt(Cur, i)

\* C6: truncate(n), for every n, does not fail, ends with
\* len = min(old_len, n), so never a longer packet, and leaves every retained
\* byte unchanged.
C6_TruncatePost ==
    last.op = "truncate" =>
       /\ ~panicked
       /\ Cur.len = Min(Pre.len, last.n)
       /\ Cur.len <= Pre.len
       /\ \A i \in Indices(Pre) : i < Cur.len => ByteAt(Cur, i) = ByteAt(Pre, i)

\* C6's case: truncate to more than the capacity.
C6_Witness ==
    /\ last.op = "truncate"
    /\ last.n > capacity(Pre)
    /\ 0 < Pre.len
    /\ Pre.len < capacity(Pre)

\* C7: resize(n, v) with n > capacity and extend(b) with len + |b| > capacity
\* fail fatally, leaving the packet as it was: len is not clamped to the
\* capacity and no byte is written.
C7_CapacityViolationIsFatal ==
    (\/ last.op = "resize" /\ last.n > capacity(Pre)
     \/ last.op = "extend" /\ Pre.len + Len(last.b) > capacity(Pre)) =>
       /\ panicked
       /\ Cur = Pre
       /\ Cur.len <= capacity(Cur)

\* C7's case: an extend that does not fit in what is left of a packet that
\* is partly filled.
C7_Witness ==
    /\ last.op = "extend"
    /\ 0 < Pre.len
    /\ Pre.len < capacity(Pre)
    /\ Pre.len + Len(last.b) > capacity(Pre)

\* C8: clear() ends with len = 0, an empty Deref view, and every byte of the
\* buffer as it was.
C8_ClearPost ==
    last.op = "clear" =>
       /\ ~panicked
       /\ Cur.len = 0
       /\ deref(Cur) = <<>>
       /\ Cur.buffer = Pre.buffer

\* C8's case: clear of a packet that holds bytes other than 0.
C8_Witness ==
    /\ last.op = "clear"
    /\ Pre.len > 1
    /\ \E i \in Indices(Pre) : ByteAt(Pre, i) # 0

\* C9: PacketPool::acquire takes one buffer from the source and returns,
\* without failing, an empty packet whose capacity is the source's buffer
\* length, whatever the buffer holds.
C9_AcquirePost ==
    last.op = "acquire" =>
       /\ ~panicked
       /\ taken = last.taken + 1
       /\ Len(packets) = last.id
       /\ Cur.len = 0
       /\ deref(Cur) = <<>>
       /\ capacity(Cur) = sourceCap

\* C9's case: a packet acquired over a buffer that holds stale bytes.
C9_Witness ==
    /\ last.op = "acquire"
    /\ capacity(Cur) > 1
    /\ \E i \in Indices(Cur) : ByteAt(Cur, i) # 0

\* C10: no call changes the capacity of a packet: a step leaves capacity()
\* of every packet what it was before the step.
C10_CapacityNeverChanges ==
    [][\A k \in Ids : capacity(packets'[k]) = capacity(packets[k])]_vars

\* C10's case: a call that changed len, on a packet with a buffer.
C10_Witness ==
    /\ last.op \in {"clear", "resize", "truncate", "extend"}
    /\ ~panicked
    /\ Cur.len # Pre.len
    /\ capacity(Cur) > 1

\* C11: truncate is idempotent: on every packet, for every n, truncate(n)
\* made twice leaves what truncate(n) made once leaves, and truncate(n) with
\* n >= len leaves the packet (len and buffer) as it was.
C11_TruncateIdempotent ==
    \A k \in Ids : \A n \in Lens :
       LET p == packets[k]
           once == truncate(p, n)
       IN  /\ truncate(once.pkt, n) = once
           /\ n >= p.len => once.pkt = p

\* C11's case: a truncate that cut a packet, which the same truncate does
\* not cut again.
C11_Witness ==
    /\ last.op = "truncate"
    /\ 0 < last.n
    /\ last.n < Pre.len
    /\ truncate(Cur, last.n).pkt = Cur

\* C12: resize(n, v) with n <= len leaves, for every v, exactly what
\* truncate(n) leaves, with every byte of the buffer as it was; a resize
\* that changed a byte had n > len.
C12_ShrinkingResizeIsTruncate ==
    /\ \A k \in Ids : \A n \in Lens : \A v \in Byte :
          LET p == packets[k]
          IN  n <= p.len =>
                 /\ resize(p, n, v) = truncate(p, n)
                 /\ resize(p, n, v).pkt.buffer = p.buffer
    /\ (last.op = "resize" /\ Cur.buffer # Pre.buffer) => last.n > Pre.len

\* C12's case: a resize that shrank a packet holding bytes other than v.
C12_Witness ==
    /\ last.op = "resize"
    /\ 0 < last.n
    /\ last.n < Pre.len
    /\ \E i \in Indices(Pre) : last.n <= i /\ i < Pre.len /\ ByteAt(Pre, i) # last.v
    /\ Cur = truncate(Pre, last.n).pkt

\* n copies of the byte v.
Fill(n, v) == [i \in 1..n |-> v]

\* C13: once a call has lowered the length of a packet to k, the content the
\* next write leaves is the k bytes kept, followed by what was written: by b
\* after extend(b), by n - k copies of v after resize(n, v) with n > k.  No
\* byte that was cut off shows again in the Deref view.
C13_ContentIsWhatWasWritten ==
    (dropped > 0 /\ ~panicked) =>
       /\ last.op = "extend" => deref(Cur) = deref(Pre) \o last.b
       /\ (last.op = "resize" /\ last.n > Pre.len) =>
             deref(Cur) = deref(Pre) \o Fill(last.n - Pre.len, last.v)

\* C13's case: an extend, right after a call that cut bytes off a packet and
\* kept some, that wrote over a cut-off byte with a different one.
C13_Witness ==
    /\ dropped > 0
    /\ ~panicked
    /\ last.op = "extend"
    /\ 0 < Pre.len
    /\ \E i \in Indices(Pre) :
          /\ Pre.len <= i /\ i < Pre.len + dropped /\ i < Cur.len
          /\ ByteAt(Pre, i) # ByteAt(Cur, i)

\* C14: a call on one packet, and the acquisition of a further packet, leave
\* the len, the capacity and every buffer byte of every other packet as they
\* were.
C14_PacketsShareNoState ==
    [][\A k \in Ids :
          k # last'.id =>
             /\ k <= Len(packets')
             /\ packets'[k].len = packets[k].len
             /\ capacity(packets'[k]) = capacity(packets[k])
             /\ packets'[k].buffer = packets[k].buffer]_vars

\* C14's case: an extend that changed the first of two packets while the
\* second held other content.
C14_Witness ==
    /\ Len(packets) = 2
    /\ last.id = 1
    /\ last.op = "extend"
    /\ ~panicked
    /\ Cur.buffer # Pre.buffer
    /\ packets[2].len # Cur.len
    /\ packets[2].buffer # Cur.buffer

C16_FailedCallWritesNothing ==
    panicked =>
       /\ last.op \in {"resize", "extend"}
       /\ Cur.len = Pre.len
       /\ Cur.buffer = Pre.buffer

\* C16's case: a failed resize of a packet that has room, over stale bytes
\* other than v.
C16_Witness ==
    /\ panicked
    /\ last.op = "resize"
    /\ \E i \in Indices(Pre) : Pre.len <= i /\ ByteAt(Pre, i) # last.v

\* The slices of at most n bytes.
SlicesWithin(n) == {b \in Slices : Len(b) <= n}

\* C17: on every packet, extend(a) then extend(b), with
\* len + |a| + |b| <= capacity, leaves what extend(a ++ b) leaves; and
\* resize(n, v) with len < n <= capacity leaves what extend of n - len
\* copies of v leaves.
C17_AppendsCompose ==
    \A k \in Ids :
       LET p == packets[k]
           room == capacity(p) - p.len
       IN  /\ \A a \in SlicesWithin(room) : \A b \in SlicesWithin(room - Len(a)) :
                 extend(extend(p, a).pkt, b) = extend(p, a \o b)
           /\ \A n \in Lens : \A v \in Byte :
                 (p.len < n /\ n <= capacity(p)) =>
                    resize(p, n, v) = extend(p, Fill(n - p.len, v))

\* C17's case: an extend by two bytes or more of a packet that is not
\* empty, which two extends would have made as well.
C17_Witness ==
    /\ last.op = "extend"
    /\ ~panicked
    /\ 0 < Pre.len
    /\ Len(last.b) > 1
    /\ Cur = extend(extend(Pre, SubSeq(last.b, 1, 1)).pkt,
                    SubSeq(last.b, 2, Len(last.b))).pkt

\* C18: a resize or an extend that succeeded left every byte below old_len
\* and every byte from new_len on as it was; truncate and clear left every
\* byte of the buffer as it was.
C18_WritesAreConfined ==
    /\ (last.op \in {"resize", "extend"} /\ ~panicked) =>
          \A i \in Indices(Pre) :
             (i < Pre.len \/ i >= Cur.len) => ByteAt(Cur, i) = ByteAt(Pre, i)
    /\ last.op \in {"truncate", "clear"} => Cur.buffer = Pre.buffer

\* C18's case: a growing resize that stopped short of the capacity, before
\* a byte other than v.
C18_Witness ==
    /\ last.op = "resize"
    /\ ~panicked
    /\ 0 < Pre.len
    /\ Pre.len < last.n
    /\ last.n < capacity(Pre)
    /\ ByteAt(Pre, last.n) # last.v
    /\ ByteAt(Cur, last.n) = ByteAt(Pre, last.n)

=============================================================================
